---- MODULE Spec2Model ----
(***************************************************************************)
(* A model of kagi-ken: search() with its HTML result extractor, and       *)
(* summarize() with its streaming summary extractor.                       *)
(*                                                                         *)
(* Text is a sequence of tokens [k, o]: k is a character (" " stands for   *)
(* any whitespace, "NUL" for the byte 0) or a literal such as "final:",    *)
(* and a token with k = "json" is a complete JSON text whose value is o.   *)
(* An HTML document is the sequence of the elements its three selectors    *)
(* match, in document order.                                               *)
(***************************************************************************)
EXTENDS Integers, Sequences, FiniteSets, TLC

\* ------------------------------------------------------------------ bounds
MaxElems == 3      \* matched elements in one HTML document
MaxFrames == 3     \* NUL-delimited frames in one stream body

\* ------------------------------------------------------------------- state
VARIABLES
  shared,    \* the module-level bindings every call reads:
             \* SUPPORTED_LANGUAGES and USER_AGENT
  api,       \* api[c]: "none", "search" or "summarize"
  pc,        \* pc[c]: "idle", "fetching" (awaiting fetch), "reading"
             \*        (awaiting response.text()), "done"
  args,      \* args[c]: the arguments the caller passed
  local,     \* local[c]: limit, type, language, isUrl with defaults applied
  requests,  \* requests[c]: the HTTP requests the call has issued
  resp,      \* resp[c]: the response received so far
  parsed,    \* parsed[c]: what parseStreamingSummary did
  outcome    \* outcome[c]: pending, resolved with a value, or rejected

vars == << shared, api, pc, args, local, requests, resp, parsed, outcome >>

\* ------------------------------------------------------- JavaScript values
\* A value is [t, s, num, den]: its type tag, its string content, and for a
\* number the fraction num/den (den is 1 or 2, so 1.5 is 3/2).
Undefined == [t |-> "undefined", s |-> "", num |-> 0, den |-> 1]
Null == [t |-> "null", s |-> "", num |-> 0, den |-> 1]
NaN == [t |-> "NaN", s |-> "", num |-> 0, den |-> 1]
Str(x) == [t |-> "string", s |-> x, num |-> 0, den |-> 1]
Bool(b) == [t |-> "boolean", s |-> IF b THEN "true" ELSE "false", num |-> 0, den |-> 1]
Num(a, b) == [t |-> "number", s |-> "", num |-> a, den |-> b]

\* typeof v === "number" (NaN is a number)
IsNumber(v) == v.t \in {"number", "NaN"}
IsString(v) == v.t = "string"
\* !!v
Truthy(v) ==
  \/ v.t = "string" /\ v.s # ""
  \/ v.t = "number" /\ v.num # 0
  \/ v.t = "boolean" /\ v.s = "true"
\* Number.isInteger(v)
IsInteger(v) == v.t = "number" /\ v.num % v.den = 0
\* v < 1 (false for NaN)
LessThanOne(v) == v.t = "number" /\ v.num < v.den
IntOf(v) == v.num \div v.den

\* ------------------------------------------------------------------- text
\* The value of a JSON text: what JSON.parse returns for it.  json is the
\* kind of the value; the four fields are those summarize() reads, Undefined
\* when the object has no such key (markdown is output_data.markdown).
Obj(state, md, reply, markdown) ==
  [json |-> "object", state |-> state, md |-> md, reply |-> reply,
   markdown |-> markdown]
JsonNull ==
  [json |-> "null", state |-> Undefined, md |-> Undefined,
   reply |-> Undefined, markdown |-> Undefined]
NoObj ==
  [json |-> "none", state |-> Undefined, md |-> Undefined,
   reply |-> Undefined, markdown |-> Undefined]

Ch(c) == [k |-> c, o |-> NoObj]
Json(o) == [k |-> "json", o |-> o]
Ws == Ch(" ")
NUL == Ch("NUL")

IsSpace(ch) == ch.k = " "

RECURSIVE DropLeading(_)
DropLeading(s) ==
  IF s # <<>> /\ IsSpace(Head(s)) THEN DropLeading(Tail(s)) ELSE s

RECURSIVE DropTrailing(_)
DropTrailing(s) ==
  IF s # <<>> /\ IsSpace(s[Len(s)])
  THEN DropTrailing(SubSeq(s, 1, Len(s) - 1))
  ELSE s

\* String.prototype.trim
Trim(s) == DropTrailing(DropLeading(s))

\* An absent attribute or a null is <<>>; a present value x is <<x>>.
None == <<>>
Some(x) == <<x>>

\* ------------------------------------------------------------ search: HTML
\* An element matched by one of the three selectors.  title and href are the
\* text and the href attribute of the first title link inside it (<<>> and
\* None when it has no title link), desc the text of its .__sri-desc
\* descendants, time the text of its first .__sri-time, span the text of a
\* related-searches span.
Element(cls, title, href, desc, time, span) ==
  [cls |-> cls, title |-> title, href |-> href, desc |-> desc, time |-> time,
   span |-> span]

\* $(selector): the matching elements in document order
Select(doc, cls) == SelectSeq(doc, LAMBDA e : e.cls = cls)

WebResult(url, title, snippet, published) ==
  [t |-> 0, url |-> url, title |-> title, snippet |-> snippet,
   published |-> published, list |-> <<>>]
RelatedResult(list) ==
  [t |-> 1, url |-> <<>>, title |-> <<>>, snippet |-> <<>>,
   published |-> None, list |-> list]

\* Mutant: an element with no snippet is dropped.
extractSearchResultNeedingSnippet(element) ==
  LET title == Trim(element.title)
      url == element.href
      snippet == Trim(element.desc)
      published ==
        IF Trim(element.time) # <<>> THEN Some(Trim(element.time)) ELSE None
  IN IF title = <<>> \/ url = None \/ url = Some(<<>>) \/ snippet = <<>>
     THEN None
     ELSE Some(WebResult(url[1], title, snippet, published))

extractSearchResult(element) ==
  LET title == Trim(element.title)
      url == element.href
      snippet == Trim(element.desc)
      published ==
        IF Trim(element.time) # <<>> THEN Some(Trim(element.time)) ELSE None
  IN IF title = <<>> \/ url = None \/ url = Some(<<>>)
     THEN None
     ELSE Some(WebResult(url[1], title, snippet, published))

extractGroupedResult(element) ==
  LET title == Trim(element.title)
      url == element.href
      snippet == Trim(element.desc)
      published ==
        IF Trim(element.time) # <<>> THEN Some(Trim(element.time)) ELSE None
  IN IF title = <<>> \/ url = None \/ url = Some(<<>>)
     THEN None
     ELSE Some(WebResult(url[1], title, snippet, published))

RECURSIVE extractRelatedSearches(_)
extractRelatedSearches(spans) ==
  IF spans = <<>> THEN <<>>
  ELSE LET term == Trim(Head(spans).span)
       IN (IF term # <<>> THEN <<term>> ELSE <<>>)
            \o extractRelatedSearches(Tail(spans))

\* The loop state of parseSearchResults: the results pushed so far and
\* resultCount.
Acc(results, resultCount) == [results |-> results, resultCount |-> resultCount]

\* Mutant: an element that fails extraction still counts against the limit.
RECURSIVE EachSearchResultCountingFailures(_, _, _)
EachSearchResultCountingFailures(elements, acc, limit) ==
  IF elements = <<>> \/ acc.resultCount >= limit THEN acc
  ELSE LET result == extractSearchResult(Head(elements))
       IN EachSearchResultCountingFailures(Tail(elements),
            IF result # None
            THEN Acc(Append(acc.results, result[1]), acc.resultCount + 1)
            ELSE Acc(acc.results, acc.resultCount + 1),
            limit)

\* $(".search-result").each(...), stopped by "return false"
RECURSIVE EachSearchResult(_, _, _)
EachSearchResult(elements, acc, limit) ==
  IF elements = <<>> \/ acc.resultCount >= limit THEN acc
  ELSE LET result == extractSearchResult(Head(elements))
       IN EachSearchResult(Tail(elements),
            IF result # None
            THEN Acc(Append(acc.results, result[1]), acc.resultCount + 1)
            ELSE acc,
            limit)

\* $(".sr-group .__srgi").each(...), stopped by "return false"
RECURSIVE EachGroupedResult(_, _, _)
EachGroupedResult(elements, acc, limit) ==
  IF elements = <<>> \/ acc.resultCount >= limit THEN acc
  ELSE LET result == extractGroupedResult(Head(elements))
       IN EachGroupedResult(Tail(elements),
            IF result # None
            THEN Acc(Append(acc.results, result[1]), acc.resultCount + 1)
            ELSE acc,
            limit)

\* Mutant: the related searches are appended only while the limit is not
\* reached.
parseSearchResultsRelatedWithinLimit(html, limit) ==
  LET main == EachSearchResult(Select(html, "search-result"), Acc(<<>>, 0), limit)
      grouped ==
        IF main.resultCount < limit
        THEN EachGroupedResult(Select(html, "srgi"), main, limit)
        ELSE main
      relatedSearches == extractRelatedSearches(Select(html, "related"))
  IN IF Len(relatedSearches) > 0 /\ grouped.resultCount < limit
     THEN Append(grouped.results, RelatedResult(relatedSearches))
     ELSE grouped.results

\* Mutant: the grouped results are taken before the primary ones.
parseSearchResultsGroupedFirst(html, limit) ==
  LET grouped == EachGroupedResult(Select(html, "srgi"), Acc(<<>>, 0), limit)
      main ==
        IF grouped.resultCount < limit
        THEN EachSearchResult(Select(html, "search-result"), grouped, limit)
        ELSE grouped
      relatedSearches == extractRelatedSearches(Select(html, "related"))
  IN IF Len(relatedSearches) > 0
     THEN Append(main.results, RelatedResult(relatedSearches))
     ELSE main.results

\* The selections and extractions of the model do not throw, so the catch
\* block of parseSearchResults is never entered.
parseSearchResults(html, limit) ==
  LET main == EachSearchResult(Select(html, "search-result"), Acc(<<>>, 0), limit)
      grouped ==
        IF main.resultCount < limit
        THEN EachGroupedResult(Select(html, "srgi"), main, limit)
        ELSE main
      relatedSearches == extractRelatedSearches(Select(html, "related"))
  IN IF Len(relatedSearches) > 0
     THEN Append(grouped.results, RelatedResult(relatedSearches))
     ELSE grouped.results

\* ----------------------------------------------------------------- errors
\* A thrown value: its constructor, its message, and the parts a message
\* template interpolates (HTTP status and status text, the language code and
\* the listed languages); code is the transport error code, "" when the
\* error has none.
Thrown(name, msg) ==
  [name |-> name, msg |-> msg, status |-> 0, statusText |-> "", code |-> "",
   lang |-> Undefined, listed |-> <<>>]
Error(msg) == Thrown("Error", msg)
HttpError(status, statusText) ==
  [Error("HTTP") EXCEPT !.status = status, !.statusText = statusText]
\* what fetch() or response.text() rejects with
TransportError(code) == [Thrown("TypeError", "fetch failed") EXCEPT !.code = code]
NoError == Thrown("none", "")

\* ------------------------------------------------------ summarize: stream
SUPPORTED_LANGUAGES ==
  << "BG", "CS", "DA", "DE", "EL", "EN", "ES", "ET", "FI", "FR", "HU", "ID",
     "IT", "JA", "KO", "LT", "LV", "NB", "NL", "PL", "PT", "RO", "RU", "SK",
     "SL", "SV", "TR", "UK", "ZH", "ZH-HANT" >>

\* Array.prototype.includes on an array of strings
Includes(array, v) ==
  IsString(v) /\ \E i \in 1..Len(array) : array[i] = v.s

\* streamData.split("\x00")
RECURSIVE SplitFrom(_, _, _)
SplitFrom(s, current, out) ==
  IF s = <<>> THEN Append(out, current)
  ELSE IF Head(s).k = "NUL"
       THEN SplitFrom(Tail(s), <<>>, Append(out, current))
       ELSE SplitFrom(Tail(s), Append(current, Head(s)), out)
Split(s) == SplitFrom(s, <<>>, <<>>)

\* msg.startsWith(prefix), the prefix being one literal token
StartsWith(msg, prefix) == msg # <<>> /\ Head(msg).k = prefix
\* msg.replace(/^prefix/, "") for a msg that starts with the prefix
StripPrefix(msg) == Tail(msg)

\* The backwards scan for a prefixed message: None is jsonString === null.
RECURSIVE ScanMessages(_, _)
ScanMessages(messages, i) ==
  IF i < 1 THEN None
  ELSE LET msg == Trim(messages[i])
       IN IF StartsWith(msg, "new_message.json:")
          THEN Some(Trim(StripPrefix(msg)))
          ELSE IF StartsWith(msg, "final:")
               THEN Some(Trim(StripPrefix(msg)))
               ELSE ScanMessages(messages, i - 1)

\* !jsonString
Falsy(jsonString) == jsonString = None \/ jsonString = Some(<<>>)

\* JSON.parse: the text is one JSON text, whitespace around it allowed.
IsJson(text) == Len(Trim(text)) = 1 /\ Trim(text)[1].k = "json"
JsonParse(text) == Trim(text)[1].o

\* What parseStreamingSummary did: the value it returned or the error it
\* threw, the JSON candidate it handed to JSON.parse (None when JSON.parse
\* was never reached), and whether it took the last message as raw JSON.
Returned(value, candidate, fallback) ==
  [thrown |-> FALSE, value |-> value, error |-> NoError,
   candidate |-> candidate, fallback |-> fallback]
Throws(error, candidate, fallback) ==
  [thrown |-> TRUE, value |-> NoObj, error |-> error,
   candidate |-> candidate, fallback |-> fallback]

\* Mutant: the filter keeps every non-empty message, blank ones included.
TryParseStreamingSummaryKeepingBlanks(streamData) ==
  LET messages == SelectSeq(Split(streamData), LAMBDA msg : msg # <<>>)
      found == ScanMessages(messages, Len(messages))
      fallback == Falsy(found)
      jsonString ==
        IF fallback THEN Some(Trim(messages[Len(messages)])) ELSE found
  IN IF Len(messages) = 0
     THEN Throws(Error("No summary data received"), None, FALSE)
     ELSE IF Falsy(jsonString)
     THEN Throws(Error("Empty summary received"), None, fallback)
     ELSE IF IsJson(jsonString[1])
     THEN Returned(JsonParse(jsonString[1]), jsonString, fallback)
     ELSE Throws(Thrown("SyntaxError", "Unexpected token"), jsonString, fallback)

\* The try block of parseStreamingSummary.
TryParseStreamingSummary(streamData) ==
  LET messages == SelectSeq(Split(streamData), LAMBDA msg : Trim(msg) # <<>>)
      found == ScanMessages(messages, Len(messages))
      fallback == Falsy(found)
      jsonString ==
        IF fallback THEN Some(Trim(messages[Len(messages)])) ELSE found
  IN IF Len(messages) = 0
     THEN Throws(Error("No summary data received"), None, FALSE)
     ELSE IF Falsy(jsonString)
     THEN Throws(Error("Empty summary received"), None, fallback)
     ELSE IF IsJson(jsonString[1])
     THEN Returned(JsonParse(jsonString[1]), jsonString, fallback)
     ELSE Throws(Thrown("SyntaxError", "Unexpected token"), jsonString, fallback)

\* The catch block of parseStreamingSummary.  jsonString is declared with
\* "let" inside the try block, so the template literal of the SyntaxError
\* branch reads a name that is not in scope and throws a ReferenceError.
CatchParseStreamingSummary(error) ==
  IF error.name = "SyntaxError"
  THEN Thrown("ReferenceError", "jsonString is not defined")
  ELSE error

parseStreamingSummary(streamData) ==
  LET try == TryParseStreamingSummary(streamData)
  IN IF try.thrown
     THEN Throws(CatchParseStreamingSummary(try.error), try.candidate,
                 try.fallback)
     ELSE try

\* a || b
OrElse(a, b) == IF Truthy(a) THEN a ELSE b

\* Mutant: the field order of the earlier revision, output_data.markdown
\* before md.
SummaryOutputMarkdownFirst(parsedResponse) ==
  OrElse(parsedResponse.markdown,
    OrElse(parsedResponse.md, OrElse(parsedResponse.reply, Str(""))))

\* summarize(), the output expression
SummaryOutput(parsedResponse) ==
  OrElse(parsedResponse.md,
    OrElse(parsedResponse.reply, OrElse(parsedResponse.markdown, Str(""))))

IsErrorState(parsedResponse) == parsedResponse.state = Str("error")

SummaryErrorMsg(parsedResponse) ==
  OrElse(parsedResponse.reply, Str("Unknown summarization error"))

\* ------------------------------------------------------------- validation
DefaultLimit == 10

\* a parameter or destructuring default: applied to undefined only
Default(v, d) == IF v = Undefined THEN d ELSE v

\* Mutant: any number of at least 1 is accepted as a limit.
SearchValidationWithoutIsInteger(query, token, limit) ==
  IF ~Truthy(query) \/ ~IsString(query)
  THEN Error("Search query is required and must be a string")
  ELSE IF ~Truthy(token) \/ ~IsString(token)
  THEN Error("Session token is required and must be a string")
  ELSE IF limit # Undefined /\ (~IsNumber(limit) \/ LessThanOne(limit))
  THEN Error("Limit must be a positive integer")
  ELSE NoError

\* Mutant: the token is checked before the query.
SearchValidationTokenFirst(query, token, limit) ==
  IF ~Truthy(token) \/ ~IsString(token)
  THEN Error("Session token is required and must be a string")
  ELSE IF ~Truthy(query) \/ ~IsString(query)
  THEN Error("Search query is required and must be a string")
  ELSE IF /\ limit # Undefined
          /\ (~IsNumber(limit) \/ LessThanOne(limit) \/ ~IsInteger(limit))
  THEN Error("Limit must be a positive integer")
  ELSE NoError

\* search(), the three checks before the try block; NoError when all pass
SearchValidation(query, token, limit) ==
  IF ~Truthy(query) \/ ~IsString(query)
  THEN Error("Search query is required and must be a string")
  ELSE IF ~Truthy(token) \/ ~IsString(token)
  THEN Error("Session token is required and must be a string")
  ELSE IF /\ limit # Undefined
          /\ (~IsNumber(limit) \/ LessThanOne(limit) \/ ~IsInteger(limit))
  THEN Error("Limit must be a positive integer")
  ELSE NoError

\* Mutant: the language is not checked.
SummarizeValidationWithoutLanguage(input, token, type, language) ==
  IF ~Truthy(input) \/ ~IsString(input)
  THEN Error("Input is required and must be a string")
  ELSE IF ~Truthy(token) \/ ~IsString(token)
  THEN Error("Session token is required and must be a string")
  ELSE IF ~Includes(<<"summary", "takeaway">>, type)
  THEN Error("Type must be 'summary' or 'takeaway'")
  ELSE NoError

\* summarize(), the four checks before the try block
SummarizeValidation(input, token, type, language) ==
  IF ~Truthy(input) \/ ~IsString(input)
  THEN Error("Input is required and must be a string")
  ELSE IF ~Truthy(token) \/ ~IsString(token)
  THEN Error("Session token is required and must be a string")
  ELSE IF ~Includes(<<"summary", "takeaway">>, type)
  THEN Error("Type must be 'summary' or 'takeaway'")
  ELSE IF ~Includes(shared.SUPPORTED_LANGUAGES, language)
  THEN [Error("Unsupported language code") EXCEPT
          !.lang = language, !.listed = shared.SUPPORTED_LANGUAGES]
  ELSE NoError

\* --------------------------------------------------------------- requests
USER_AGENT == "USER_AGENT"

\* An outbound request: query and form are the URL's search parameters and
\* the URL-encoded body, as name/value pairs in the order they were set.
Request(method, url, query, form, headers) ==
  [method |-> method, url |-> url, query |-> query, form |-> form,
   headers |-> headers]

\* A header: its name, the literal part of its value, the interpolated part.
Header(name, value) == <<name, value, "">>
Cookie(token) == <<"Cookie", "kagi_session=", token.s>>

SearchRequest(query, token) ==
  Request("GET", "https://kagi.com/html/search", << <<"q", query.s>> >>, <<>>,
    { Header("User-Agent", shared.USER_AGENT), Cookie(token) })

SummarizeHeaders(token) ==
  { Header("Accept", "application/vnd.kagi.stream"),
    Header("Connection", "keep-alive"),
    Cookie(token),
    Header("Host", "kagi.com"),
    Header("Pragma", "no-cache"),
    Header("Referer", "https://kagi.com/summarizer"),
    Header("User-Agent", shared.USER_AGENT) }

\* Mutant: the POST body names the input url, as the GET's query does.
SummarizeRequestPostingUrl(input, token, type, language, isUrl) ==
  IF Truthy(isUrl)
  THEN Request("GET", "https://kagi.com/mother/summary_labs",
         << <<"url", input.s>>, <<"stream", "1">>,
            <<"target_language", language.s>>, <<"summary_type", type.s>> >>,
         <<>>, SummarizeHeaders(token))
  ELSE Request("POST", "https://kagi.com/mother/summary_labs/", <<>>,
         << <<"url", input.s>>, <<"stream", "1">>,
            <<"target_language", language.s>>, <<"summary_type", type.s>> >>,
         SummarizeHeaders(token) \cup
           { Header("Content-Type",
                    "application/x-www-form-urlencoded;charset=UTF-8") })

SummarizeRequest(input, token, type, language, isUrl) ==
  IF Truthy(isUrl)
  THEN Request("GET", "https://kagi.com/mother/summary_labs",
         << <<"url", input.s>>, <<"stream", "1">>,
            <<"target_language", language.s>>, <<"summary_type", type.s>> >>,
         <<>>, SummarizeHeaders(token))
  ELSE Request("POST", "https://kagi.com/mother/summary_labs/", <<>>,
         << <<"text", input.s>>, <<"stream", "1">>,
            <<"target_language", language.s>>, <<"summary_type", type.s>> >>,
         SummarizeHeaders(token) \cup
           { Header("Content-Type",
                    "application/x-www-form-urlencoded;charset=UTF-8") })

\* response.ok
Ok(status) == status \in 200..299

\* Mutant: every error with a code is reported as the network error.
CatchCallAnyCode(error) ==
  IF error.code # ""
  THEN Error("Network error: Unable to connect to Kagi")
  ELSE error

\* The catch block shared by search() and summarize().
CatchCall(error) ==
  IF error.code = "ENOTFOUND" \/ error.code = "ECONNREFUSED"
  THEN Error("Network error: Unable to connect to Kagi")
  ELSE error

\* Mutant: only 401 is taken as an authentication failure.
StatusErrorOnly401(status, statusText) ==
  IF status = 401
  THEN Error("Invalid or expired session token")
  ELSE HttpError(status, statusText)

\* if (!response.ok) { ... }
StatusError(status, statusText) ==
  IF status = 401 \/ status = 403
  THEN Error("Invalid or expired session token")
  ELSE HttpError(status, statusText)

\* ------------------------------------------------------------------ inputs
Queries == { Undefined, Str(""), Str("q"), Num(5, 1) }
Tokens == { Undefined, Str(""), Str("tok") }
Limits ==
  { Undefined, Null, NaN, Str("2"), Num(0, 1), Num(-1, 1), Num(3, 2) }
    \cup { Num(n, 1) : n \in 1..3 }
Types == { Undefined, Null, Str("takeaway"), Str("bullets") }
Languages == { Undefined, Str("ZH-HANT"), Str("XX"), Str("en") }
IsUrls == { Undefined, Bool(TRUE), Bool(FALSE) }
Statuses == { 200, 401, 403, 404, 500 }
StatusText(status) ==
  CASE status = 200 -> "OK"
    [] status = 401 -> "Unauthorized"
    [] status = 403 -> "Forbidden"
    [] status = 404 -> "Not Found"
    [] OTHER -> "Internal Server Error"
Codes == { "ENOTFOUND", "ECONNREFUSED", "ETIMEDOUT", "" }

Text(c) == << Ch(c) >>
Padded(c) == << Ws, Ch(c), Ws >>
Blank == << Ws >>

\* The elements a document is built from: complete results, results with no
\* snippet or timestamp, results with a blank title, an empty or a missing
\* href, and related-search spans, one of them blank.
ElementPool ==
  { Element("search-result", Padded("A"), Some(Text("a")), Padded("d"), Padded("t"), <<>>),
    Element("search-result", Text("B"), Some(Text("b")), Blank, <<>>, <<>>),
    Element("search-result", Blank, Some(Text("c")), Text("d"), Text("t"), <<>>),
    Element("search-result", Text("E"), Some(<<>>), <<>>, <<>>, <<>>),
    Element("srgi", Text("G"), Some(Text("g")), <<>>, Text("t"), <<>>),
    Element("srgi", Padded("H"), Some(Text("h")), Text("d"), Blank, <<>>),
    Element("srgi", Text("I"), None, Text("d"), <<>>, <<>>),
    Element("related", <<>>, None, <<>>, <<>>, Padded("r")),
    Element("related", <<>>, None, <<>>, <<>>, Text("s")),
    Element("related", <<>>, None, <<>>, <<>>, Blank) }

Docs == UNION { [1..n -> ElementPool] : n \in 0..MaxElems }

\* The values of the fields summarize() reads from the payload.
FieldValues == { Undefined, Str(""), Str("X") }
Payloads ==
  { Obj(state, md, reply, markdown) :
      state \in { Undefined, Str("error"), Str("done") },
      md \in FieldValues,
      reply \in { Undefined, Null, Str(""), Str("quota exceeded") },
      markdown \in { Undefined, Str("Y") } }
    \cup { JsonNull }

PayloadA == Obj(Undefined, Str("A"), Undefined, Undefined)
PayloadB == Obj(Undefined, Undefined, Str("B"), Undefined)
PayloadC == Obj(Str("done"), Undefined, Undefined, Str("C"))
Handshake == Obj(Undefined, Undefined, Undefined, Undefined)

\* The frames a stream body is built from.
FramePool ==
  { <<>>,
    << Ws >>,
    << Ch("hi:"), Json(Handshake) >>,
    << Ws, Ch("new_message.json:"), Ws, Json(PayloadB), Ws >>,
    << Ch("final:"), Json(PayloadC) >>,
    << Ch("final:") >>,
    << Ch("new_message.json:"), Ws >>,
    << Json(PayloadA) >>,
    << Ch("final:"), Ch("{") >> }

RECURSIVE JoinFrames(_)
JoinFrames(frames) ==
  IF Len(frames) = 0 THEN <<>>
  ELSE IF Len(frames) = 1 THEN frames[1]
  ELSE frames[1] \o << NUL >> \o JoinFrames(Tail(frames))

\* Stream bodies: up to MaxFrames frames of the pool, NUL-delimited, and
\* one tagged frame for each payload.
Streams ==
  { JoinFrames(frames) :
      frames \in UNION { [1..n -> FramePool] : n \in 0..MaxFrames } }
    \cup { << Ch("new_message.json:"), Json(payload) >> : payload \in Payloads }

\* ------------------------------------------------------------------- calls
CallIds == { 1, 2 }

Args(input, token, limit, type, language, isUrl) ==
  [input |-> input, token |-> token, limit |-> limit, type |-> type,
   language |-> language, isUrl |-> isUrl]
NoArgs == Args(Undefined, Undefined, Undefined, Undefined, Undefined, Undefined)

\* read: response.text() has resolved, with html or stream as the body;
\* failure: what fetch() or response.text() rejected with, NoError when
\* neither did
Response(status, read, html, stream, failure) ==
  [status |-> status, read |-> read, html |-> html, stream |-> stream,
   failure |-> failure]
NoResponse == Response(0, FALSE, <<>>, <<>>, NoError)

Pending ==
  [kind |-> "pending", data |-> <<>>, output |-> Undefined, error |-> NoError]
Resolved(data, output) ==
  [kind |-> "resolved", data |-> data, output |-> output, error |-> NoError]
Rejected(error) ==
  [kind |-> "rejected", data |-> <<>>, output |-> Undefined, error |-> error]

NotParsed == Throws(NoError, None, FALSE)

Init ==
  /\ shared = [SUPPORTED_LANGUAGES |-> SUPPORTED_LANGUAGES,
               USER_AGENT |-> USER_AGENT]
  /\ api = [c \in CallIds |-> "none"]
  /\ pc = [c \in CallIds |-> "idle"]
  /\ args = [c \in CallIds |-> NoArgs]
  /\ local = [c \in CallIds |-> NoArgs]
  /\ requests = [c \in CallIds |-> <<>>]
  /\ resp = [c \in CallIds |-> NoResponse]
  /\ parsed = [c \in CallIds |-> NotParsed]
  /\ outcome = [c \in CallIds |-> Pending]

\* The values an execution draws its arguments and responses from.
Inputs ==
  [queries |-> Queries, tokens |-> Tokens, limits |-> Limits, types |-> Types,
   languages |-> Languages, isUrls |-> IsUrls, statuses |-> Statuses,
   codes |-> Codes, docs |-> Docs, streams |-> Streams]

\* ------------------------------------------------------------------ search
\* Each step of a call draws its inputs from env, a record shaped as Inputs.
\* search(query, token, limit) up to its first await: the validation, then
\* the fetch.
SearchCall(c, env) ==
  /\ pc[c] = "idle"
  /\ \E query \in env.queries, token \in env.tokens, given \in env.limits :
       LET limit == Default(given, Num(DefaultLimit, 1))
           error == SearchValidation(query, token, limit)
       IN /\ api' = [api EXCEPT ![c] = "search"]
          /\ args' = [args EXCEPT ![c] =
               Args(query, token, given, Undefined, Undefined, Undefined)]
          /\ local' = [local EXCEPT ![c] =
               Args(query, token, limit, Undefined, Undefined, Undefined)]
          /\ IF error # NoError
             THEN /\ pc' = [pc EXCEPT ![c] = "done"]
                  /\ outcome' = [outcome EXCEPT ![c] = Rejected(error)]
                  /\ UNCHANGED requests
             ELSE /\ pc' = [pc EXCEPT ![c] = "fetching"]
                  /\ requests' = [requests EXCEPT ![c] =
                       Append(@, SearchRequest(query, token))]
                  /\ UNCHANGED outcome
  /\ UNCHANGED << shared, resp, parsed >>

\* fetch() resolves with a response: the status check.
SearchResponse(c, env) ==
  /\ api[c] = "search" /\ pc[c] = "fetching"
  /\ \E status \in env.statuses :
       /\ resp' = [resp EXCEPT ![c].status = status]
       /\ IF ~Ok(status)
          THEN /\ pc' = [pc EXCEPT ![c] = "done"]
               /\ outcome' = [outcome EXCEPT ![c] =
                    Rejected(CatchCall(StatusError(status, StatusText(status))))]
          ELSE /\ pc' = [pc EXCEPT ![c] = "reading"]
               /\ UNCHANGED outcome
  /\ UNCHANGED << shared, api, args, local, requests, parsed >>

\* Mutant: the results array lives at module level, so a call's results are
\* pushed after those the other calls have returned.
SearchBodySharingResults(c, env) ==
  /\ api[c] = "search" /\ pc[c] = "reading"
  /\ pc' = [pc EXCEPT ![c] = "done"]
  /\ \E html \in env.docs :
       LET other == CHOOSE d \in CallIds : d # c
           results ==
             IF api[other] = "search" /\ outcome[other].kind = "resolved"
             THEN outcome[other].data
             ELSE <<>>
       IN /\ resp' = [resp EXCEPT ![c].read = TRUE, ![c].html = html]
          /\ outcome' = [outcome EXCEPT ![c] =
               Resolved(results \o parseSearchResults(html, IntOf(local[c].limit)),
                        Undefined)]
  /\ UNCHANGED << shared, api, args, local, requests, parsed >>

\* response.text() resolves: the parse and the return.
SearchBody(c, env) ==
  /\ api[c] = "search" /\ pc[c] = "reading"
  /\ pc' = [pc EXCEPT ![c] = "done"]
  /\ \E html \in env.docs :
       /\ resp' = [resp EXCEPT ![c].read = TRUE, ![c].html = html]
       /\ outcome' = [outcome EXCEPT ![c] =
            Resolved(parseSearchResults(html, IntOf(local[c].limit)), Undefined)]
  /\ UNCHANGED << shared, api, args, local, requests, parsed >>

\* Mutant: a failed attempt is retried once before the call gives up.
SearchFailureRetryingOnce(c, env) ==
  /\ api[c] = "search" /\ pc[c] \in { "fetching", "reading" }
  /\ \E code \in env.codes :
       /\ resp' = [resp EXCEPT ![c].failure = TransportError(code)]
       /\ IF Len(requests[c]) < 2
          THEN /\ pc' = [pc EXCEPT ![c] = "fetching"]
               /\ requests' = [requests EXCEPT ![c] = Append(@, @[1])]
               /\ UNCHANGED outcome
          ELSE /\ pc' = [pc EXCEPT ![c] = "done"]
               /\ outcome' = [outcome EXCEPT ![c] =
                    Rejected(CatchCall(TransportError(code)))]
               /\ UNCHANGED requests
  /\ UNCHANGED << shared, api, args, local, parsed >>

\* fetch() or response.text() rejects: the catch block.
SearchFailure(c, env) ==
  /\ api[c] = "search" /\ pc[c] \in { "fetching", "reading" }
  /\ pc' = [pc EXCEPT ![c] = "done"]
  /\ \E code \in env.codes :
       /\ resp' = [resp EXCEPT ![c].failure = TransportError(code)]
       /\ outcome' = [outcome EXCEPT ![c] =
            Rejected(CatchCall(TransportError(code)))]
  /\ UNCHANGED << shared, api, args, local, requests, parsed >>

\* --------------------------------------------------------------- summarize
\* Mutant: the earlier revision, with no check of the error state.
SummarizeResultWithoutErrorState(parsedResponse) ==
  Resolved(<<>>, SummaryOutput(parsedResponse))

\* summarize(), from the parsed response to the return or the throw
SummarizeResult(parsedResponse) ==
  IF IsErrorState(parsedResponse)
  THEN Rejected(CatchCall(Error(SummaryErrorMsg(parsedResponse).s)))
  ELSE Resolved(<<>>, SummaryOutput(parsedResponse))

\* summarize(input, token, options) up to its first await
SummarizeCall(c, env) ==
  /\ pc[c] = "idle"
  /\ \E input \in env.queries, token \in env.tokens,
        givenType \in env.types, givenLanguage \in env.languages,
        givenIsUrl \in env.isUrls :
       LET type == Default(givenType, Str("summary"))
           language == Default(givenLanguage, Str("EN"))
           isUrl == Default(givenIsUrl, Bool(FALSE))
           error == SummarizeValidation(input, token, type, language)
       IN /\ api' = [api EXCEPT ![c] = "summarize"]
          /\ args' = [args EXCEPT ![c] =
               Args(input, token, Undefined, givenType, givenLanguage, givenIsUrl)]
          /\ local' = [local EXCEPT ![c] =
               Args(input, token, Undefined, type, language, isUrl)]
          /\ IF error # NoError
             THEN /\ pc' = [pc EXCEPT ![c] = "done"]
                  /\ outcome' = [outcome EXCEPT ![c] = Rejected(error)]
                  /\ UNCHANGED requests
             ELSE /\ pc' = [pc EXCEPT ![c] = "fetching"]
                  /\ requests' = [requests EXCEPT ![c] =
                       Append(@, SummarizeRequest(input, token, type, language, isUrl))]
                  /\ UNCHANGED outcome
  /\ UNCHANGED << shared, resp, parsed >>

SummarizeResponse(c, env) ==
  /\ api[c] = "summarize" /\ pc[c] = "fetching"
  /\ \E status \in env.statuses :
       /\ resp' = [resp EXCEPT ![c].status = status]
       /\ IF ~Ok(status)
          THEN /\ pc' = [pc EXCEPT ![c] = "done"]
               /\ outcome' = [outcome EXCEPT ![c] =
                    Rejected(CatchCall(StatusError(status, StatusText(status))))]
          ELSE /\ pc' = [pc EXCEPT ![c] = "reading"]
               /\ UNCHANGED outcome
  /\ UNCHANGED << shared, api, args, local, requests, parsed >>

SummarizeBody(c, env) ==
  /\ api[c] = "summarize" /\ pc[c] = "reading"
  /\ pc' = [pc EXCEPT ![c] = "done"]
  /\ \E streamData \in env.streams :
       LET result == parseStreamingSummary(streamData)
       IN /\ resp' = [resp EXCEPT ![c].read = TRUE, ![c].stream = streamData]
          /\ parsed' = [parsed EXCEPT ![c] = result]
          /\ outcome' = [outcome EXCEPT ![c] =
               IF result.thrown
               THEN Rejected(CatchCall(result.error))
               ELSE SummarizeResult(result.value)]
  /\ UNCHANGED << shared, api, args, local, requests >>

SummarizeFailure(c, env) ==
  /\ api[c] = "summarize" /\ pc[c] \in { "fetching", "reading" }
  /\ pc' = [pc EXCEPT ![c] = "done"]
  /\ \E code \in env.codes :
       /\ resp' = [resp EXCEPT ![c].failure = TransportError(code)]
       /\ outcome' = [outcome EXCEPT ![c] =
            Rejected(CatchCall(TransportError(code)))]
  /\ UNCHANGED << shared, api, args, local, requests, parsed >>

\* ------------------------------------------------------------ specification
\* One call at a time.
Single == { 1 }

Next ==
  \E c \in Single :
    \/ SearchCall(c, Inputs)
    \/ SearchResponse(c, Inputs)
    \/ SearchBody(c, Inputs)
    \/ SearchFailure(c, Inputs)
    \/ SummarizeCall(c, Inputs)
    \/ SummarizeResponse(c, Inputs)
    \/ SummarizeBody(c, Inputs)
    \/ SummarizeFailure(c, Inputs)

Spec == Init /\ [][Next]_vars

\* Concurrent calls: every call of CallIds is started by the caller without
\* awaiting the others, and the event loop runs their continuations in any
\* order.  Each call draws from a few arguments and responses, the same few
\* for every call.
ConcurrentInputs ==
  [queries |-> { Str(""), Str("q") },
   tokens |-> { Str("tok") },
   limits |-> { Undefined, Num(1, 1) },
   types |-> { Undefined, Str("bullets") },
   languages |-> { Undefined, Str("XX") },
   isUrls |-> { Undefined, Bool(TRUE) },
   statuses |-> { 200, 403 },
   codes |-> { "ENOTFOUND", "" },
   docs |-> { << >>,
              << Element("search-result", Text("B"), Some(Text("b")), Blank, <<>>, <<>>),
                 Element("srgi", Text("G"), Some(Text("g")), <<>>, Text("t"), <<>>) >> },
   streams |-> { << Ch("final:"), Json(PayloadC) >>,
                 << Ch("final:"), Ch("{") >>,
                 << Ch("new_message.json:"),
                    Json(Obj(Str("error"), Undefined, Str("quota exceeded"), Undefined)) >> }]

NextConcurrent ==
  \E c \in CallIds :
    \/ SearchCall(c, ConcurrentInputs)
    \/ SearchResponse(c, ConcurrentInputs)
    \/ SearchBody(c, ConcurrentInputs)
    \/ SearchFailure(c, ConcurrentInputs)
    \/ SummarizeCall(c, ConcurrentInputs)
    \/ SummarizeResponse(c, ConcurrentInputs)
    \/ SummarizeBody(c, ConcurrentInputs)
    \/ SummarizeFailure(c, ConcurrentInputs)

SpecConcurrent == Init /\ [][NextConcurrent]_vars

\* ------------------------------------------------- properties: the search
Min(a, b) == IF a < b THEN a ELSE b

\* a search call that returned
SearchReturned(c) ==
  api[c] = "search" /\ pc[c] = "done" /\ outcome[c].kind = "resolved"

\* the t=0 records of a result sequence, in order
WebRecords(data) == SelectSeq(data, LAMBDA r : r.t = 0)

\* The element has a title that is non-empty once trimmed, and a non-empty
\* href.
HasTitleAndUrl(e) ==
  /\ \E i \in 1..Len(e.title) : e.title[i] # Ws
  /\ e.href # None
  /\ Len(e.href[1]) > 0

\* The primary elements followed by the grouped elements: the order in
\* which the extractor consults them.
Candidates(doc) ==
  SelectSeq(doc, LAMBDA e : e.cls = "search-result")
    \o SelectSeq(doc, LAMBDA e : e.cls = "srgi")

\* V: how many primary and grouped elements yield a title and a URL
Available(doc) ==
  Cardinality({ i \in 1..Len(Candidates(doc)) : HasTitleAndUrl(Candidates(doc)[i]) })

\* C1: the number of t=0 records search returns is min(n, V), n the limit
\* and V the number of primary and grouped elements of the document that
\* yield a title and a URL; an element that yields none takes nothing of n.
C1_ResultCount ==
  \A c \in CallIds :
    SearchReturned(c) =>
      Len(WebRecords(outcome[c].data))
        = Min(IntOf(local[c].limit), Available(resp[c].html))

\* C1 witness: a document whose first primary element fails extraction,
\* with more valid elements than the limit of 1.
C1_Witness ==
  \E c \in CallIds :
    /\ SearchReturned(c)
    /\ IntOf(local[c].limit) = 1
    /\ Available(resp[c].html) = 2
    /\ Len(resp[c].html) = 3
    /\ resp[c].html[1].cls = "search-result"
    /\ ~HasTitleAndUrl(resp[c].html[1])
    /\ Len(WebRecords(outcome[c].data)) = 1

\* The non-empty trimmed related-search terms of a document, in order.
RelatedTerms(doc) ==
  LET spans == SelectSeq(doc, LAMBDA e : e.cls = "related")
      trimmed == [i \in 1..Len(spans) |-> Trim(spans[i].span)]
  IN SelectSeq(trimmed, LAMBDA term : term # <<>>)

\* C2: the output holds at most one t=1 record; it is there exactly when the
\* document has a non-empty trimmed related-search term, it is the last
\* element, and its list is all such terms in document order, whatever the
\* limit.
C2_RelatedSearches ==
  \A c \in CallIds :
    SearchReturned(c) =>
      LET data == outcome[c].data
          terms == RelatedTerms(resp[c].html)
          related == { i \in 1..Len(data) : data[i].t = 1 }
      IN /\ Cardinality(related) <= 1
         /\ (related # {}) <=> (terms # <<>>)
         /\ related # {} =>
              /\ related = { Len(data) }
              /\ data[Len(data)].list = terms

\* C2 witness: the limit of 1 is used up by the first element, and the two
\* related-search terms after it are still returned, last.
C2_Witness ==
  \E c \in CallIds :
    /\ SearchReturned(c)
    /\ IntOf(local[c].limit) = 1
    /\ Len(outcome[c].data) = 2
    /\ outcome[c].data[1].t = 0
    /\ outcome[c].data[2].t = 1
    /\ Len(outcome[c].data[2].list) = 2

\* The candidates the extractor reaches with budget left: fewer than n
\* elements with a title and a URL come before them.
Considered(doc, n) ==
  LET cs == Candidates(doc)
  IN { i \in 1..Len(cs) :
         Cardinality({ j \in 1..(i - 1) : HasTitleAndUrl(cs[j]) }) < n }

\* The record r is the one for element e: its url and trimmed title, the
\* empty snippet when e has no description, no published value when e has
\* no timestamp.
RecordOf(r, e) ==
  /\ r.t = 0
  /\ r.url = e.href[1]
  /\ r.title = Trim(e.title)
  /\ Trim(e.desc) = <<>> => r.snippet = <<>>
  /\ Trim(e.time) = <<>> => r.published = None

\* C3: an element considered within the budget produces a t=0 record if and
\* only if it yields a title and a URL; every t=0 record has a non-empty url
\* and title; a missing snippet or timestamp gives an empty snippet or no
\* published value, not a dropped record.
C3_EmittedRecords ==
  \A c \in CallIds :
    SearchReturned(c) =>
      LET doc == resp[c].html
          cs == Candidates(doc)
          records == WebRecords(outcome[c].data)
          emitting ==
            { i \in Considered(doc, IntOf(local[c].limit)) : HasTitleAndUrl(cs[i]) }
      IN /\ \A k \in 1..Len(records) :
              records[k].url # <<>> /\ records[k].title # <<>>
         /\ Len(records) = Cardinality(emitting)
         /\ \A i \in emitting :
              RecordOf(records[Cardinality({ j \in emitting : j <= i })], cs[i])

\* C3 witness: an element with a title and a URL but with neither snippet
\* nor timestamp is returned, next to an element that was dropped.
C3_Witness ==
  \E c \in CallIds :
    /\ SearchReturned(c)
    /\ \E i \in 1..Len(resp[c].html) :
         /\ resp[c].html[i].cls = "search-result"
         /\ ~HasTitleAndUrl(resp[c].html[i])
    /\ \E k \in 1..Len(outcome[c].data) :
         /\ outcome[c].data[k].t = 0
         /\ outcome[c].data[k].snippet = <<>>
         /\ outcome[c].data[k].published = None

\* --------------------------------------------- properties: the validation
NonEmptyString(v) == v.t = "string" /\ v.s # ""
PositiveInteger(v) == v.t = "number" /\ v.num >= v.den /\ v.num % v.den = 0

\* the call was rejected before any request was issued
RejectedUnsent(c) ==
  pc[c] = "done" /\ outcome[c].kind = "rejected" /\ requests[c] = <<>>

SearchValidationMessages ==
  { "Search query is required and must be a string",
    "Session token is required and must be a string",
    "Limit must be a positive integer" }

SearchArgumentsInvalid(c) ==
  \/ ~NonEmptyString(args[c].input)
  \/ ~NonEmptyString(args[c].token)
  \/ args[c].limit # Undefined /\ ~PositiveInteger(args[c].limit)

\* C4: search rejects with a validation error when the query or the token is
\* empty or not a string, or a given limit is not a positive integer, and
\* then issues no request; a request is issued only after all three checks
\* passed.
C4_SearchValidation ==
  \A c \in CallIds :
    api[c] = "search" =>
      /\ SearchArgumentsInvalid(c) =>
           /\ RejectedUnsent(c)
           /\ outcome[c].error.name = "Error"
           /\ outcome[c].error.msg \in SearchValidationMessages
      /\ requests[c] # <<>> => ~SearchArgumentsInvalid(c)

\* C4 witness: the limit 1.5 with a valid query and token is rejected as an
\* invalid limit, no request issued.
C4_Witness ==
  \E c \in CallIds :
    /\ api[c] = "search"
    /\ NonEmptyString(args[c].input) /\ NonEmptyString(args[c].token)
    /\ args[c].limit = Num(3, 2)
    /\ RejectedUnsent(c)
    /\ outcome[c].error.msg = "Limit must be a positive integer"

SupportedLanguageSet ==
  { "BG", "CS", "DA", "DE", "EL", "EN", "ES", "ET", "FI", "FR", "HU", "ID",
    "IT", "JA", "KO", "LT", "LV", "NB", "NL", "PL", "PT", "RO", "RU", "SK",
    "SL", "SV", "TR", "UK", "ZH", "ZH-HANT" }

TypeAccepted(type) ==
  type = Undefined \/ (type.t = "string" /\ type.s \in { "summary", "takeaway" })
LanguageAccepted(language) ==
  language = Undefined
    \/ (language.t = "string" /\ language.s \in SupportedLanguageSet)

\* C5: summarize rejects, with no request issued, when the given type is not
\* summary or takeaway or the given language is not one of the 30 supported
\* codes; the language rejection lists the supported set; an omitted type
\* and language default to summary and EN and pass.
C5_SummarizeValidation ==
  \A c \in CallIds :
    api[c] = "summarize" =>
      /\ ~TypeAccepted(args[c].type) \/ ~LanguageAccepted(args[c].language) =>
           RejectedUnsent(c)
      /\ outcome[c].error.msg = "Unsupported language code" =>
           /\ outcome[c].error.lang = args[c].language
           /\ Len(outcome[c].error.listed) = 30
           /\ { outcome[c].error.listed[i] : i \in 1..30 } = SupportedLanguageSet
      /\ ( /\ NonEmptyString(args[c].input) /\ NonEmptyString(args[c].token)
            /\ args[c].type = Undefined /\ args[c].language = Undefined ) =>
           /\ local[c].type = Str("summary")
           /\ local[c].language = Str("EN")
           /\ Len(requests[c]) = 1

\* C5 witness: the language XX, everything else valid, is rejected with the
\* list of supported languages and no request.
C5_Witness ==
  \E c \in CallIds :
    /\ api[c] = "summarize"
    /\ NonEmptyString(args[c].input) /\ NonEmptyString(args[c].token)
    /\ TypeAccepted(args[c].type)
    /\ args[c].language = Str("XX")
    /\ RejectedUnsent(c)
    /\ outcome[c].error.msg = "Unsupported language code"
    /\ Len(outcome[c].error.listed) = 30

\* ------------------------------------------------- properties: the stream
\* a summarize call whose response body was read and handed to the extractor
SummarizeRead(c) == api[c] = "summarize" /\ pc[c] = "done" /\ resp[c].read

\* The frame, trimmed, begins with one of the two recognized tags.
Tagged(frame) ==
  Trim(frame) # <<>> /\ Trim(frame)[1].k \in { "new_message.json:", "final:" }
NonBlank(frame) == Trim(frame) # <<>>
\* the frame's text after its tag, trimmed
Payload(frame) == Trim(Tail(Trim(frame)))

AnyTagged(frames) == \E i \in 1..Len(frames) : Tagged(frames[i])
AnyNonBlank(frames) == \E i \in 1..Len(frames) : NonBlank(frames[i])
\* the tagged frame closest to the end of the body
LastTagged(frames) ==
  frames[CHOOSE i \in 1..Len(frames) :
           Tagged(frames[i]) /\ \A j \in (i + 1)..Len(frames) : ~Tagged(frames[j])]
\* the non-blank frame closest to the end of the body
LastNonBlank(frames) ==
  frames[CHOOSE i \in 1..Len(frames) :
           NonBlank(frames[i]) /\ \A j \in (i + 1)..Len(frames) : ~NonBlank(frames[j])]

\* C6: when the body has a tagged frame, the JSON candidate that is parsed
\* is the payload of the most recent tagged frame: no earlier tagged frame
\* and no untagged frame after it is used.
C6_MostRecentTaggedFrame ==
  \A c \in CallIds :
    SummarizeRead(c) =>
      LET frames == Split(resp[c].stream)
      IN AnyTagged(frames) =>
           LET payload == Payload(LastTagged(frames))
           IN /\ parsed[c].candidate \in { None, Some(payload) }
              /\ payload # <<>> => parsed[c].candidate = Some(payload)

\* C7: with no tagged frame, the candidate is the last non-blank frame,
\* trimmed, and that fallback is taken only when no frame is tagged.
C7_FallbackOnlyWithoutTag ==
  \A c \in CallIds :
    SummarizeRead(c) =>
      LET frames == Split(resp[c].stream)
      IN /\ (AnyNonBlank(frames) /\ ~AnyTagged(frames)) =>
              /\ parsed[c].fallback
              /\ parsed[c].candidate = Some(Trim(LastNonBlank(frames)))
         /\ parsed[c].fallback => ~AnyTagged(frames)

\* a summarize call whose payload was parsed and is not in the error state
SummaryParsed(c) ==
  SummarizeRead(c) /\ ~parsed[c].thrown /\ parsed[c].value.state # Str("error")

Present(v) == v # Undefined /\ v # Null
FirstPresent(o) ==
  IF Present(o.md) THEN o.md
  ELSE IF Present(o.reply) THEN o.reply
  ELSE IF Present(o.markdown) THEN o.markdown
  ELSE Str("")

NonEmpty(v) == Present(v) /\ v # Str("")
FirstNonEmpty(o) ==
  IF NonEmpty(o.md) THEN o.md
  ELSE IF NonEmpty(o.reply) THEN o.reply
  ELSE IF NonEmpty(o.markdown) THEN o.markdown
  ELSE Str("")

\* C8 as stated: the output is the first present value among md, reply and
\* output_data.markdown, the empty string when none is present.
C8_FirstPresentField ==
  \A c \in CallIds :
    SummaryParsed(c) =>
      /\ outcome[c].kind = "resolved"
      /\ outcome[c].output = FirstPresent(parsed[c].value)

\* C8 amended: the output is the first non-empty value among md, reply and
\* output_data.markdown (an empty string is passed over like an absent
\* field), the empty string when none is non-empty.
C8_FirstNonEmptyField ==
  \A c \in CallIds :
    SummaryParsed(c) =>
      /\ outcome[c].kind = "resolved"
      /\ outcome[c].output = FirstNonEmpty(parsed[c].value)

\* C8 witness: md is present and empty, reply is not, and the output is the
\* reply.
C8_Witness ==
  \E c \in CallIds :
    /\ SummaryParsed(c)
    /\ parsed[c].value.md = Str("")
    /\ NonEmpty(parsed[c].value.reply)
    /\ NonEmpty(parsed[c].value.markdown)
    /\ outcome[c].kind = "resolved"
    /\ outcome[c].output = parsed[c].value.reply

\* a summarize call whose payload was parsed and is in the error state
SummaryInErrorState(c) ==
  SummarizeRead(c) /\ ~parsed[c].thrown /\ parsed[c].value.state = Str("error")

\* C9 as stated: a payload in the error state rejects the call, with the
\* payload's reply as the message when it is present and the generic message
\* otherwise.
C9_ErrorStateReplyPresent ==
  \A c \in CallIds :
    SummaryInErrorState(c) =>
      /\ outcome[c].kind = "rejected"
      /\ outcome[c].error.msg =
           IF Present(parsed[c].value.reply)
           THEN parsed[c].value.reply.s
           ELSE "Unknown summarization error"

\* C9 amended: a payload in the error state rejects the call, whatever md,
\* reply and output_data.markdown hold, with the payload's reply as the
\* message when it is present and non-empty and the generic message
\* otherwise.
C9_ErrorState ==
  \A c \in CallIds :
    SummaryInErrorState(c) =>
      /\ outcome[c].kind = "rejected"
      /\ outcome[c].error.name = "Error"
      /\ outcome[c].error.msg =
           IF NonEmpty(parsed[c].value.reply)
           THEN parsed[c].value.reply.s
           ELSE "Unknown summarization error"

\* C9 witness: the error state with md, reply and output_data.markdown all
\* present rejects with the reply "quota exceeded".
C9_Witness ==
  \E c \in CallIds :
    /\ SummaryInErrorState(c)
    /\ NonEmpty(parsed[c].value.md)
    /\ NonEmpty(parsed[c].value.markdown)
    /\ parsed[c].value.reply = Str("quota exceeded")
    /\ outcome[c].kind = "rejected"
    /\ outcome[c].error.msg = "quota exceeded"

\* C10: a candidate that is not valid JSON rejects the call with the error
\* "Failed to parse summary JSON response", and with no other error.
C10_ParseFailure ==
  \A c \in CallIds :
    (SummarizeRead(c) /\ parsed[c].candidate # None
       /\ ~IsJson(parsed[c].candidate[1])) =>
      /\ outcome[c].kind = "rejected"
      /\ outcome[c].error.name = "Error"
      /\ outcome[c].error.msg = "Failed to parse summary JSON response"

\* The body has a tagged frame, and the most recent one has nothing after
\* its tag once trimmed.
EmptyTaggedCandidate(c) ==
  LET frames == Split(resp[c].stream)
  IN AnyTagged(frames) /\ Payload(LastTagged(frames)) = <<>>

\* C11: when the JSON candidate is empty after the tag is stripped and the
\* rest trimmed (the most recent tagged frame is exactly "final:" or
\* "new_message.json:"), the call rejects with "Empty summary received".
C11_EmptySummary ==
  \A c \in CallIds :
    (SummarizeRead(c) /\ EmptyTaggedCandidate(c)) =>
      /\ outcome[c].kind = "rejected"
      /\ outcome[c].error.msg = "Empty summary received"

\* C12: when no frame of the body is non-empty once trimmed (an empty body,
\* only NUL delimiters, only whitespace frames), the call rejects with "No
\* summary data received", and no text is handed to JSON.parse.
C12_NoSummaryData ==
  \A c \in CallIds :
    (SummarizeRead(c) /\ ~AnyNonBlank(Split(resp[c].stream))) =>
      /\ outcome[c].kind = "rejected"
      /\ outcome[c].error = Error("No summary data received")
      /\ parsed[c].thrown
      /\ parsed[c].candidate = None

\* C12 witness: a body of whitespace frames between NUL delimiters is
\* rejected with "No summary data received".
C12_Witness ==
  \E c \in CallIds :
    /\ SummarizeRead(c)
    /\ \E i \in 1..Len(resp[c].stream) : resp[c].stream[i] = NUL
    /\ \E i \in 1..Len(resp[c].stream) : resp[c].stream[i] = Ws
    /\ ~AnyNonBlank(Split(resp[c].stream))
    /\ outcome[c].kind = "rejected"
    /\ outcome[c].error.msg = "No summary data received"
    /\ parsed[c].candidate = None

\* ------------------------------------------- properties: the HTTP exchange
\* a call, of either API, whose request was answered with a non-2xx status
AnsweredNotOk(c) ==
  /\ api[c] \in { "search", "summarize" }
  /\ resp[c].status # 0
  /\ resp[c].status \notin 200..299

\* C13: in search and in summarize, a response with status 401 or 403
\* rejects the call with "Invalid or expired session token", never with the
\* generic HTTP message; any other non-2xx status rejects it with a message
\* carrying the numeric status and the status text; in neither case is the
\* body read or parsed, or a result returned.
C13_StatusErrors ==
  \A c \in CallIds :
    AnsweredNotOk(c) =>
      /\ pc[c] = "done"
      /\ outcome[c].kind = "rejected"
      /\ outcome[c].error.name = "Error"
      /\ resp[c].status \in { 401, 403 } =>
           outcome[c].error.msg = "Invalid or expired session token"
      /\ resp[c].status \notin { 401, 403 } =>
           /\ outcome[c].error.msg = "HTTP"
           /\ outcome[c].error.status = resp[c].status
           /\ outcome[c].error.statusText = StatusText(resp[c].status)
      /\ ~resp[c].read
      /\ parsed[c] = NotParsed
      /\ outcome[c].data = <<>> /\ outcome[c].output = Undefined

\* C13 witness: a summarize call answered with 403 is rejected with the
\* session-token message, its body unread.
C13_Witness ==
  \E c \in CallIds :
    /\ api[c] = "summarize"
    /\ resp[c].status = 403
    /\ ~resp[c].read
    /\ outcome[c].kind = "rejected"
    /\ outcome[c].error.msg = "Invalid or expired session token"

\* a summarize call that issued its request
SummarizeSent(c) == api[c] = "summarize" /\ requests[c] # <<>>

\* the name/value pairs of a query string or a form body, and their names
Fields(pairs) == { pairs[i] : i \in 1..Len(pairs) }
FieldNames(pairs) == { pairs[i][1] : i \in 1..Len(pairs) }

\* The pairs carry four fields: the input under the given name, stream=1,
\* and the validated language and type of call c.
FourFields(c, pairs, inputName) ==
  /\ Len(pairs) = 4
  /\ Fields(pairs) =
       { << inputName, args[c].input.s >>,
         << "stream", "1" >>,
         << "target_language", local[c].language.s >>,
         << "summary_type", local[c].type.s >> }
  /\ TypeAccepted(local[c].type) /\ LanguageAccepted(local[c].language)

\* C14 as stated: a GET with the query parameters url, stream=1,
\* target_language and summary_type when isUrl is true, and otherwise a POST
\* whose form body carries the same four fields as the GET's query.
C14_SameFourFields ==
  \A c \in CallIds :
    SummarizeSent(c) =>
      LET request == requests[c][1]
      IN IF args[c].isUrl = Bool(TRUE)
         THEN /\ request.method = "GET"
              /\ FourFields(c, request.query, "url")
              /\ request.form = <<>>
         ELSE /\ request.method = "POST"
              /\ FourFields(c, request.form, "url")
              /\ request.query = <<>>

\* C14 amended: a GET with the query parameters url, stream=1,
\* target_language and summary_type when isUrl is true, and otherwise a POST
\* whose form body carries text (the input), stream=1, target_language and
\* summary_type: the input goes under the name text, not url.
C14_RequestShapes ==
  \A c \in CallIds :
    SummarizeSent(c) =>
      LET request == requests[c][1]
      IN IF args[c].isUrl = Bool(TRUE)
         THEN /\ request.method = "GET"
              /\ FourFields(c, request.query, "url")
              /\ request.form = <<>>
         ELSE /\ request.method = "POST"
              /\ FourFields(c, request.form, "text")
              /\ request.query = <<>>

\* C14 witness: with isUrl omitted and the language and type given, a POST
\* is issued whose form body carries text, stream, target_language and
\* summary_type.
C14_Witness ==
  \E c \in CallIds :
    /\ SummarizeSent(c)
    /\ args[c].isUrl = Undefined
    /\ args[c].language = Str("ZH-HANT")
    /\ args[c].type = Str("takeaway")
    /\ requests[c][1].method = "POST"
    /\ FieldNames(requests[c][1].form)
         = { "text", "stream", "target_language", "summary_type" }
    /\ << "target_language", "ZH-HANT" >> \in Fields(requests[c][1].form)

\* A failure has happened in call c: fetch() or response.text() rejected,
\* the status was not 2xx, the extractor threw, or the payload is in the
\* error state.
Failed(c) ==
  \/ resp[c].failure # NoError
  \/ AnsweredNotOk(c)
  \/ parsed[c].thrown /\ parsed[c].error # NoError
  \/ ~parsed[c].thrown /\ parsed[c].value.state = Str("error")

\* the call has issued at most one request, and a failed call is rejected
AtMostOneRequest ==
  \A c \in CallIds :
    /\ Len(requests[c]) <= 1
    /\ Failed(c) =>
         /\ pc[c] = "done"
         /\ outcome[c].kind = "rejected"
         /\ outcome[c].data = <<>> /\ outcome[c].output = Undefined

\* a step issues a request only for a call that has issued none and has not
\* failed; a request once issued stays the call's only one
NoSecondRequest ==
  \A c \in CallIds :
    \/ requests'[c] = requests[c]
    \/ /\ requests[c] = <<>> /\ ~Failed(c)
       /\ Len(requests'[c]) = 1

\* C15: a call issues at most one HTTP request; after a failure (transport
\* error, non-2xx status, parse failure, upstream error state) it issues no
\* second request, and the failure is the call's rejection, never a returned
\* value.
C15_SingleRequest == []AtMostOneRequest /\ [][NoSecondRequest]_vars

\* C15 witness: a call whose request failed in transit after the response
\* headers arrived is rejected, having issued one request.
C15_Witness ==
  \E c \in CallIds :
    /\ pc[c] = "done"
    /\ resp[c].status = 200
    /\ resp[c].failure # NoError
    /\ Len(requests[c]) = 1
    /\ outcome[c].kind = "rejected"

\* ------------------------------------------ properties: the result order
\* The primary elements that yield a title and a URL, in document order,
\* followed by the grouped elements that do, in document order.
ValidCandidates(doc) == SelectSeq(Candidates(doc), HasTitleAndUrl)
\* how many primary elements yield a title and a URL
ValidPrimary(doc) ==
  Len(SelectSeq(doc, LAMBDA e : e.cls = "search-result" /\ HasTitleAndUrl(e)))

\* C16: the t=0 records are the first min(n, V) entries of the valid
\* primary results in document order followed by the valid grouped results
\* in document order; no grouped result is emitted when n primary records
\* were accepted, and nothing is emitted once the count is n.
C16_ResultOrder ==
  \A c \in CallIds :
    SearchReturned(c) =>
      LET doc == resp[c].html
          n == IntOf(local[c].limit)
          valid == ValidCandidates(doc)
          records == WebRecords(outcome[c].data)
      IN /\ Len(records) = Min(n, Len(valid))
         /\ \A k \in 1..Len(records) : RecordOf(records[k], valid[k])
         /\ ValidPrimary(doc) >= n =>
              \A k \in 1..Len(records) :
                \A i \in 1..Len(doc) :
                  doc[i].cls = "srgi" /\ doc[i].href # None
                    => records[k].url # doc[i].href[1]

\* C16 witness: a valid grouped element stands first in the document, two
\* valid primary elements follow, and with the limit 2 the records are the
\* two primary ones, in document order.
C16_Witness ==
  \E c \in CallIds :
    /\ SearchReturned(c)
    /\ IntOf(local[c].limit) = 2
    /\ Len(resp[c].html) = 3
    /\ resp[c].html[1].cls = "srgi" /\ HasTitleAndUrl(resp[c].html[1])
    /\ resp[c].html[2].cls = "search-result" /\ HasTitleAndUrl(resp[c].html[2])
    /\ resp[c].html[3].cls = "search-result" /\ HasTitleAndUrl(resp[c].html[3])
    /\ resp[c].html[2] # resp[c].html[3]
    /\ Len(WebRecords(outcome[c].data)) = 2
    /\ RecordOf(outcome[c].data[1], resp[c].html[2])
    /\ RecordOf(outcome[c].data[2], resp[c].html[3])

\* ------------------------------------------- properties: the catch block
NetworkError == Error("Network error: Unable to connect to Kagi")

\* the error call c raised before its catch block: the transport failure,
\* the status error, the extractor's error, or the upstream error
Raised(c) ==
  IF resp[c].failure # NoError THEN resp[c].failure
  ELSE IF AnsweredNotOk(c)
  THEN IF resp[c].status \in { 401, 403 }
       THEN Error("Invalid or expired session token")
       ELSE HttpError(resp[c].status, StatusText(resp[c].status))
  ELSE IF parsed[c].thrown THEN parsed[c].error
  ELSE Error(IF NonEmpty(parsed[c].value.reply)
             THEN parsed[c].value.reply.s
             ELSE "Unknown summarization error")

\* C17: in search and in summarize, a transport error whose code is
\* ENOTFOUND or ECONNREFUSED rejects the call with "Network error: Unable
\* to connect to Kagi"; every other error raised inside the call
\* (authentication, HTTP status, parsing, upstream error state, a transport
\* error with another code) is the call's rejection unchanged, never the
\* network message.
C17_NetworkError ==
  \A c \in CallIds :
    (pc[c] = "done" /\ Failed(c)) =>
      /\ outcome[c].kind = "rejected"
      /\ IF /\ resp[c].failure # NoError
            /\ resp[c].failure.code \in { "ENOTFOUND", "ECONNREFUSED" }
         THEN outcome[c].error = NetworkError
         ELSE /\ outcome[c].error = Raised(c)
              /\ outcome[c].error # NetworkError

\* C17 witness: a summarize call whose transport failed with ETIMEDOUT is
\* rejected with that very error, code included.
C17_Witness ==
  \E c \in CallIds :
    /\ api[c] = "summarize"
    /\ pc[c] = "done"
    /\ resp[c].failure # NoError
    /\ resp[c].failure.code = "ETIMEDOUT"
    /\ outcome[c].kind = "rejected"
    /\ outcome[c].error = resp[c].failure
    /\ outcome[c].error.msg # "Network error: Unable to connect to Kagi"

\* ---------------------------------------- properties: concurrent calls
\* What a search call returns or throws when it runs alone with the given
\* arguments and response.
SearchAlone(a, r) ==
  LET limit == Default(a.limit, Num(DefaultLimit, 1))
      invalid == SearchValidation(a.input, a.token, limit)
  IN IF invalid # NoError THEN Rejected(invalid)
     ELSE IF r.failure # NoError THEN Rejected(CatchCall(r.failure))
     ELSE IF ~Ok(r.status)
     THEN Rejected(CatchCall(StatusError(r.status, StatusText(r.status))))
     ELSE Resolved(parseSearchResults(r.html, IntOf(limit)), Undefined)

\* What a summarize call returns or throws when it runs alone with the
\* given arguments and response.
SummarizeAlone(a, r) ==
  LET type == Default(a.type, Str("summary"))
      language == Default(a.language, Str("EN"))
      invalid == SummarizeValidation(a.input, a.token, type, language)
      result == parseStreamingSummary(r.stream)
  IN IF invalid # NoError THEN Rejected(invalid)
     ELSE IF r.failure # NoError THEN Rejected(CatchCall(r.failure))
     ELSE IF ~Ok(r.status)
     THEN Rejected(CatchCall(StatusError(r.status, StatusText(r.status))))
     ELSE IF result.thrown THEN Rejected(CatchCall(result.error))
     ELSE SummarizeResult(result.value)

\* Every finished call has the outcome it has alone, and the module-level
\* bindings hold what they were initialised with.
OutcomeAsAlone ==
  /\ shared = [SUPPORTED_LANGUAGES |-> SUPPORTED_LANGUAGES,
               USER_AGENT |-> USER_AGENT]
  /\ \A c \in CallIds :
       pc[c] = "done" =>
         outcome[c] =
           IF api[c] = "search"
           THEN SearchAlone(args[c], resp[c])
           ELSE SummarizeAlone(args[c], resp[c])

\* A step is a step of one call: it leaves every other call's state, and
\* the module-level bindings, as they were.
StepOfOneCall ==
  /\ shared' = shared
  /\ \E c \in CallIds :
       \A d \in CallIds \ { c } :
         /\ api'[d] = api[d] /\ pc'[d] = pc[d]
         /\ args'[d] = args[d] /\ local'[d] = local[d]
         /\ requests'[d] = requests[d] /\ resp'[d] = resp[d]
         /\ parsed'[d] = parsed[d] /\ outcome'[d] = outcome[d]

\* C18: for calls running concurrently and any interleaving of their steps,
\* each call's outcome is the one it has when run alone with the same
\* arguments and the same response; no step of a call changes what another
\* call holds, and the supported languages and the user agent are never
\* modified.
C18_Independence == []OutcomeAsAlone /\ [][StepOfOneCall]_vars

\* C18 witness: a search call has returned its records while a summarize
\* call started beside it is still awaiting its body.
C18_Witness ==
  /\ api[1] = "search" /\ pc[1] = "done"
  /\ outcome[1].kind = "resolved" /\ Len(outcome[1].data) = 2
  /\ api[2] = "summarize" /\ pc[2] = "reading"
  /\ Len(requests[1]) = 1 /\ Len(requests[2]) = 1

\* ------------------------------------- properties: the validation order
\* The message of the earliest failing check of a search call, in the order
\* query, token, limit; "" when every check passes.
FirstSearchFailure(a) ==
  IF ~NonEmptyString(a.input)
  THEN "Search query is required and must be a string"
  ELSE IF ~NonEmptyString(a.token)
  THEN "Session token is required and must be a string"
  ELSE IF a.limit # Undefined /\ ~PositiveInteger(a.limit)
  THEN "Limit must be a positive integer"
  ELSE ""

\* The message of the earliest failing check of a summarize call, in the
\* order input, token, type, language; "" when every check passes.
FirstSummarizeFailure(a) ==
  IF ~NonEmptyString(a.input)
  THEN "Input is required and must be a string"
  ELSE IF ~NonEmptyString(a.token)
  THEN "Session token is required and must be a string"
  ELSE IF ~TypeAccepted(a.type)
  THEN "Type must be 'summary' or 'takeaway'"
  ELSE IF ~LanguageAccepted(a.language)
  THEN "Unsupported language code"
  ELSE ""

\* C19: the validation checks run in a fixed order, search: query, token,
\* limit; summarize: input, token, type, language; a call with several
\* invalid arguments is rejected with the error of the earliest failing
\* check.
C19_ValidationOrder ==
  \A c \in CallIds :
    LET first ==
          IF api[c] = "search" THEN FirstSearchFailure(args[c])
          ELSE FirstSummarizeFailure(args[c])
    IN (api[c] # "none" /\ first # "") =>
         /\ RejectedUnsent(c)
         /\ outcome[c].error.msg = first

\* C19 witness: a summarize call with a valid input and token, an invalid
\* type and an invalid language is rejected with the type error.
C19_Witness ==
  \E c \in CallIds :
    /\ api[c] = "summarize"
    /\ NonEmptyString(args[c].input) /\ NonEmptyString(args[c].token)
    /\ ~TypeAccepted(args[c].type)
    /\ ~LanguageAccepted(args[c].language)
    /\ RejectedUnsent(c)
    /\ outcome[c].error.msg = "Type must be 'summary' or 'takeaway'"

====
